---- MODULE Spec2Model ----
(***************************************************************************)
(* Talma Tea operations tracker (src/app.py): the relational store (users, *)
(* daily_cash, workers, staff, timesheets) and the request handlers that   *)
(* read and write it.  One action per request handler; every request is    *)
(* one committed unit of work against the store.                           *)
(*                                                                         *)
(* Representation.  A column that can hold SQL NULL holds a tagged record: *)
(* NULL, Num(n), Txt(chars), a date or a clock reading.  A submitted form  *)
(* value is NULL (the key is missing) or Txt(chars), chars being the       *)
(* sequence of its characters, so that parsing is computed, not assumed.   *)
(* A float is Num(n) for a whole number n, or NaN, or Inf(sign): amounts    *)
(* and hours are whole numbers of the unit they are entered in, or one of  *)
(* the non-finite values float() also accepts.                             *)
(***************************************************************************)
EXTENDS Integers, Sequences, FiniteSets, TLC

VARIABLES
    users,          \* users table: id -> role
    daily_cash,     \* daily_cash table: id -> row
    workers,        \* workers table: id -> row
    staff,          \* staff table: id -> row
    timesheets,     \* timesheets table: id -> row
    seq,            \* next rowid of each table
    daily_hist,     \* history: per daily_cash row, the approval requests that acted on it
    ts_hist,        \* history: per timesheets row, the same
    people_hist,    \* history: per worker / staff row, the last rate or salary request
    requests        \* approval requests being served concurrently, and the last write to each entry

vars ==
    <<users, daily_cash, workers, staff, timesheets, seq, daily_hist, ts_hist, people_hist,
      requests>>

(***************************************************************************)
(* Bounds of the model.                                                    *)
(***************************************************************************)
MaxUsers   == 6
MaxDaily   == 2
MaxWorkers == 2
MaxStaff   == 2
MaxTs      == 2
MaxReq     == 3

(***************************************************************************)
(* Values.                                                                 *)
(***************************************************************************)
NULL == [k |-> "null"]
Num(n) == [k |-> "num", n |-> n]
Txt(s) == [k |-> "txt", s |-> s]
Clock(s) == [k |-> "time", at |-> s]
NaN == [k |-> "nan"]
Inf(sign) == [k |-> "inf", sign |-> sign]

\* Clock readings datetime.now() can return to an approval request.
Stamps == {"T1", "T2"}

(***************************************************************************)
(* _f: float(v or 0), 0.0 when float() raises.                             *)
(***************************************************************************)
Digits == {"0", "1", "2", "3", "4", "5", "6", "7", "8", "9"}

DigitVal(c) ==
    CASE c = "0" -> 0 [] c = "1" -> 1 [] c = "2" -> 2 [] c = "3" -> 3 [] c = "4" -> 4
      [] c = "5" -> 5 [] c = "6" -> 6 [] c = "7" -> 7 [] c = "8" -> 8 [] c = "9" -> 9

\* The value of a non-empty run of decimal digits.
RECURSIVE DigitsValue(_)
DigitsValue(s) ==
    IF Len(s) = 0 THEN 0
    ELSE 10 * DigitsValue(SubSeq(s, 1, Len(s) - 1)) + DigitVal(s[Len(s)])

AllDigits(s) == Len(s) > 0 /\ \A i \in 1..Len(s) : s[i] \in Digits

\* The text after an optional sign.
Unsigned(s) == IF Len(s) > 0 /\ s[1] \in {"-", "+"} THEN Tail(s) ELSE s

Sign(s) == IF Len(s) > 0 /\ s[1] = "-" THEN 0 - 1 ELSE 1

\* float() accepts an optionally signed decimal numeral, "nan" and "inf", and
\* raises ValueError on other text.
FloatParses(s) ==
    \/ AllDigits(Unsigned(s))
    \/ Unsigned(s) \in {<<"n", "a", "n">>, <<"i", "n", "f">>}

FloatOf(s) ==
    IF Unsigned(s) = <<"n", "a", "n">> THEN NaN
    ELSE IF Unsigned(s) = <<"i", "n", "f">> THEN Inf(Sign(s))
    ELSE Num(Sign(s) * DigitsValue(Unsigned(s)))

_f(v) ==
    IF v = NULL \/ v.s = <<>> THEN Num(0)
    ELSE IF FloatParses(v.s) THEN FloatOf(v.s)
    ELSE Num(0)

(***************************************************************************)
(* Float arithmetic (IEEE 754) on whole numbers and the non-finite values. *)
(***************************************************************************)
\* a + b
fadd(a, b) ==
    IF a = NaN \/ b = NaN THEN NaN
    ELSE IF a.k = "inf" /\ b.k = "inf" THEN (IF a.sign = b.sign THEN a ELSE NaN)
    ELSE IF a.k = "inf" THEN a
    ELSE IF b.k = "inf" THEN b
    ELSE Num(a.n + b.n)

\* -a
fneg(a) ==
    IF a = NaN THEN NaN
    ELSE IF a.k = "inf" THEN Inf(0 - a.sign)
    ELSE Num(0 - a.n)

\* a - b
fsub(a, b) == fadd(a, fneg(b))

\* a > 0: false of NaN.
fpositive(a) ==
    \/ a.k = "num" /\ a.n > 0
    \/ a.k = "inf" /\ a.sign = 1

(***************************************************************************)
(* The store: generic row operations of one committed SQL statement.       *)
(***************************************************************************)
\* INSERT of one row under a fresh rowid.
SqlInsert(tbl, id, row) == [i \in DOMAIN tbl \cup {id} |-> IF i = id THEN row ELSE tbl[i]]

\* UPDATE ... SET ... WHERE id=?: the row with that id, if any, becomes new.
SqlUpdate(tbl, id, new) == [i \in DOMAIN tbl |-> IF i = id THEN new ELSE tbl[i]]

\* DELETE ... WHERE id<=?
SqlDeleteThrough(tbl, id) == [i \in {j \in DOMAIN tbl : j > id} |-> tbl[i]]

\* DELETE ... WHERE id=?
SqlDelete(tbl, id) == [i \in DOMAIN tbl \ {id} |-> tbl[i]]

EmptyTable == [i \in {} |-> NULL]

\* The committed statement that last changed each entry: none yet.
NoWrites == [tbl \in {"daily_cash", "timesheets"} |-> EmptyTable]

\* A float bound to a statement parameter: sqlite3 binds NaN as NULL.
SqlBind(x) == IF x = NaN THEN NULL ELSE x

(***************************************************************************)
(* Users, sessions and the role gate.                                      *)
(***************************************************************************)
Roles == {"admin", "md", "manager", "data_entry"}

\* The accounts the store holds when the application starts: one per role.
SeedUsers == (1 :> "admin") @@ (2 :> "md") @@ (3 :> "manager") @@ (4 :> "data_entry")

\* A request carries the id of an account, or of none (no session, or the
\* session of an account deleted since): load_user finds no row for it.
Anonymous == seq.users

Sessions == DOMAIN users \cup {Anonymous}

\* The sessions of the accounts holding one of the roles.
Staffers(roles) == {c \in DOMAIN users : users[c] \in roles}

is_authenticated(caller) == caller \in DOMAIN users

\* roles_required(*roles): TRUE when the wrapped handler runs.
roles_requiredOpen(caller, roles) == is_authenticated(caller)

roles_required(caller, roles) ==
    /\ is_authenticated(caller)
    /\ users[caller] \in roles

login_required(caller) == is_authenticated(caller)

(***************************************************************************)
(* Daily cash capture.                                                     *)
(***************************************************************************)
NumFields ==
    {"total_kg", "amount_tk", "green_leaf_bill_payment", "staff_salary", "labour_bill",
     "production_cost", "coal", "diesel", "electricity", "other_exp", "capital_cost",
     "machineries", "assets_purchase", "construction", "cash_receive", "add_amount",
     "less_amount"}

\* str.strip() on a sequence of characters.
RECURSIVE Strip(_)
Strip(s) ==
    IF Len(s) = 0 THEN s
    ELSE IF s[1] = " " THEN Strip(Tail(s))
    ELSE IF s[Len(s)] = " " THEN Strip(SubSeq(s, 1, Len(s) - 1))
    ELSE s

\* a + b + c + ... summed left to right.
RECURSIVE fsum(_)
fsum(xs) == IF Len(xs) = 1 THEN xs[1] ELSE fadd(fsum(SubSeq(xs, 1, Len(xs) - 1)), xs[Len(xs)])

\* The derived totals of one parsed form (n: field -> float).
total_cost(n) ==
    fsum(<<n["green_leaf_bill_payment"], n["staff_salary"], n["labour_bill"],
           n["production_cost"], n["coal"], n["diesel"], n["electricity"], n["other_exp"]>>)

fixed_cost(n) ==
    fsum(<<n["capital_cost"], n["machineries"], n["assets_purchase"], n["construction"]>>)

grand_total(n) == fadd(total_cost(n), fixed_cost(n))

net_cash(n) == fsub(fadd(n["cash_receive"], n["add_amount"]), n["less_amount"])

\* The stored name of an uploaded voucher: the upload time and the sanitised file name.
voucher_path(file, now) ==
    IF file = NULL \/ file.s = <<>> THEN NULL
    ELSE [k |-> "file", at |-> now, name |-> file.s]

\* The row daily() inserts for a submitted form.  approved_by and approved_at are
\* not among the inserted columns and take the column default, NULL.
DailyRow(form, caller, today, now) ==
    LET n == [x \in NumFields |-> _f(form.num[x])]
    IN  [date |-> IF form.date = NULL THEN today ELSE form.date,
         total_kg |-> SqlBind(n["total_kg"]),
         amount_tk |-> SqlBind(n["amount_tk"]),
         green_leaf_bill_payment |-> SqlBind(n["green_leaf_bill_payment"]),
         staff_salary |-> SqlBind(n["staff_salary"]),
         labour_bill |-> SqlBind(n["labour_bill"]),
         production_cost |-> SqlBind(n["production_cost"]),
         coal |-> SqlBind(n["coal"]),
         diesel |-> SqlBind(n["diesel"]),
         electricity |-> SqlBind(n["electricity"]),
         other_exp |-> SqlBind(n["other_exp"]),
         total_cost |-> SqlBind(total_cost(n)),
         capital_cost |-> SqlBind(n["capital_cost"]),
         machineries |-> SqlBind(n["machineries"]),
         assets_purchase |-> SqlBind(n["assets_purchase"]),
         construction |-> SqlBind(n["construction"]),
         fixed_cost |-> SqlBind(fixed_cost(n)),
         grand_total |-> SqlBind(grand_total(n)),
         cash_receive |-> SqlBind(n["cash_receive"]),
         add_amount |-> SqlBind(n["add_amount"]),
         less_amount |-> SqlBind(n["less_amount"]),
         net_cash |-> SqlBind(net_cash(n)),
         note |-> Txt(Strip(IF form.note = NULL THEN <<>> ELSE form.note.s)),
         voucher_path |-> voucher_path(form.voucher, now),
         status |-> "submitted",
         created_by |-> caller,
         approved_by |-> NULL,
         approved_at |-> NULL]

(***************************************************************************)
(* Approval of daily cash entries.                                         *)
(***************************************************************************)
ApproveRowNoStamp(r, uid, now) ==
    [r EXCEPT !.status = "approved", !.approved_by = Num(uid)]

\* SET status='approved', approved_by=?, approved_at=?
ApproveRow(r, uid, now) ==
    [r EXCEPT !.status = "approved", !.approved_by = Num(uid), !.approved_at = Clock(now)]

ResetRowKeepStamp(r, st) ==
    [r EXCEPT !.status = st, !.approved_by = NULL]

\* SET status=<st>, approved_by=NULL, approved_at=NULL
ResetRow(r, st) ==
    [r EXCEPT !.status = st, !.approved_by = NULL, !.approved_at = NULL]

\* History of one entry: the last request that changed its approval state, the
\* role of the account that approved it, and the row as it was before it was approved.
NewHist == [last |-> "create", by |-> "none", pre |-> NULL]

HistApprove(h, r, role) ==
    [last |-> "approve", by |-> role, pre |-> IF r.status = "approved" THEN h.pre ELSE r]

HistReset(h, r) ==
    IF r.status = "approved"
    THEN [last |-> "approve_reset", by |-> "none", pre |-> h.pre]
    ELSE h

\* The amounts of a row the statement binds as NULL.
NullAmounts(row) ==
    {x \in NumFields \cup {"total_cost", "fixed_cost", "grand_total", "net_cash"} : row[x] = NULL}

\* POST /daily.  The table's column constraints are not part of the source:
\* nullable says whether its amount columns accept NULL; if they do not, the
\* INSERT of a NULL amount raises and nothing is committed.
daily(caller, form, today, now, nullable) ==
    /\ seq.daily <= MaxDaily
    /\ IF /\ login_required(caller)
          /\ (nullable \/ NullAmounts(DailyRow(form, caller, today, now)) = {})
       THEN /\ daily_cash' = SqlInsert(daily_cash, seq.daily, DailyRow(form, caller, today, now))
            /\ daily_hist' = SqlInsert(daily_hist, seq.daily, NewHist)
            /\ seq' = [seq EXCEPT !.daily = @ + 1]
       ELSE UNCHANGED <<daily_cash, daily_hist, seq>>
    /\ UNCHANGED <<users, workers, staff, timesheets, ts_hist, people_hist, requests>>

\* GET /daily/approve/<row_id>
approve_daily(caller, row_id, now) ==
    /\ IF roles_required(caller, {"admin", "md"})
       THEN /\ daily_cash' = SqlUpdate(daily_cash, row_id, ApproveRow(daily_cash[row_id], caller, now))
            /\ daily_hist' = SqlUpdate(daily_hist, row_id, HistApprove(daily_hist[row_id], daily_cash[row_id], users[caller]))
       ELSE UNCHANGED <<daily_cash, daily_hist>>
    /\ UNCHANGED <<users, workers, staff, timesheets, seq, ts_hist, people_hist, requests>>

\* GET /daily/unapprove/<row_id>
unapprove_daily(caller, row_id) ==
    /\ IF roles_required(caller, {"admin", "md"})
       THEN /\ daily_cash' = SqlUpdate(daily_cash, row_id, ResetRow(daily_cash[row_id], "submitted"))
            /\ daily_hist' = SqlUpdate(daily_hist, row_id, HistReset(daily_hist[row_id], daily_cash[row_id]))
       ELSE UNCHANGED <<daily_cash, daily_hist>>
    /\ UNCHANGED <<users, workers, staff, timesheets, seq, ts_hist, people_hist, requests>>

\* GET /daily/delete/<row_id>
delete_daily(caller, row_id) ==
    /\ IF roles_required(caller, {"admin", "md"})
       THEN /\ daily_cash' = SqlDelete(daily_cash, row_id)
            /\ daily_hist' = SqlDelete(daily_hist, row_id)
       ELSE UNCHANGED <<daily_cash, daily_hist>>
    /\ UNCHANGED <<users, workers, staff, timesheets, seq, ts_hist, people_hist, requests>>

\* GET /daily/reject/<row_id>: the role gate again, then delete_daily(row_id),
\* whose own gate the same caller passes.
reject_daily(caller, row_id) ==
    IF roles_required(caller, {"admin", "md"})
    THEN delete_daily(caller, row_id)
    ELSE UNCHANGED vars

(***************************************************************************)
(* Calendar: ISO dates of the year 2025 as (month, day).                   *)
(***************************************************************************)
Date(mo, dd) == [k |-> "date", mo |-> mo, dd |-> dd]

\* calendar.monthrange(2025, mo)[1]
MonthDays == <<31, 28, 31, 30, 31, 30, 31, 31, 30, 31, 30, 31>>

RECURSIVE DaysBefore(_)
DaysBefore(mo) == IF mo = 1 THEN 0 ELSE DaysBefore(mo - 1) + MonthDays[mo - 1]

\* datetime.strptime(d, "%Y-%m-%d"): the day of the year.
strptime(d) == DaysBefore(d.mo) + d.dd

\* strftime("%Y-%m-%d") of the n-th day of the year.
RECURSIVE strftimeFrom(_, _)
strftimeFrom(n, mo) ==
    IF n <= MonthDays[mo] THEN Date(mo, n) ELSE strftimeFrom(n - MonthDays[mo], mo + 1)

strftime(n) == strftimeFrom(n, 1)

\* datetime.weekday(): Monday is 0; 2025-01-01 is a Wednesday.
weekday(d) == (strptime(d) + 1) % 7

\* Comparison of two ISO date strings, as BETWEEN compares them.
DateLE(a, b) == a.mo < b.mo \/ (a.mo = b.mo /\ a.dd <= b.dd)

(***************************************************************************)
(* People: workers and staff.                                              *)
(***************************************************************************)
\* Worker names in alphabetical order (ORDER BY name, sorted()).
WorkerNames == <<"Amina", "Bashir">>

NameRank(name) == CHOOSE i \in 1..Len(WorkerNames) : WorkerNames[i] = name

\* A form string bound to a numeric column: SQLite stores well-formed numeric
\* text as a number and keeps other text as text.
RealAffinity(v) ==
    IF v = NULL THEN NULL
    ELSE IF AllDigits(Unsigned(v.s)) THEN Num(Sign(v.s) * DigitsValue(Unsigned(v.s)))
    ELSE v

\* INSERT INTO workers(name, join_date, note, active, hourly_rate, approved_hourly_rate)
WorkerRow(form, today) ==
    [name |-> form.name,
     join_date |-> IF form.join_date = NULL THEN today ELSE form.join_date,
     leave_date |-> NULL,
     note |-> IF form.note = NULL THEN Txt(<<>>) ELSE form.note,
     active |-> 1,
     hourly_rate |-> RealAffinity(IF form.hourly_rate = NULL THEN Txt(<<"0">>) ELSE form.hourly_rate),
     approved_hourly_rate |-> Num(0)]

\* INSERT INTO staff(name, position, salary, join_date, approved_salary)
StaffRow(form, today) ==
    [name |-> form.name,
     position |-> IF form.position = NULL THEN Txt(<<>>) ELSE form.position,
     salary |-> SqlBind(_f(form.salary)),
     join_date |-> IF form.join_date = NULL THEN today ELSE form.join_date,
     leave_date |-> NULL,
     approved_salary |-> NULL]

\* POST /people
people(caller, form, today) ==
    /\ IF roles_required(caller, {"manager", "md", "admin"})
       THEN IF form.kind = "worker"
            THEN /\ seq.workers <= MaxWorkers
                 /\ workers' = SqlInsert(workers, seq.workers, WorkerRow(form, today))
                 /\ people_hist' = [people_hist EXCEPT
                                      !.workers = SqlInsert(@, seq.workers, "create")]
                 /\ seq' = [seq EXCEPT !.workers = @ + 1]
                 /\ UNCHANGED staff
            ELSE IF form.kind = "staff"
            THEN /\ seq.staff <= MaxStaff
                 /\ staff' = SqlInsert(staff, seq.staff, StaffRow(form, today))
                 /\ people_hist' = [people_hist EXCEPT
                                      !.staff = SqlInsert(@, seq.staff, "create")]
                 /\ seq' = [seq EXCEPT !.staff = @ + 1]
                 /\ UNCHANGED workers
            ELSE UNCHANGED <<workers, staff, people_hist, seq>>
       ELSE UNCHANGED <<workers, staff, people_hist, seq>>
    /\ UNCHANGED <<users, daily_cash, timesheets, daily_hist, ts_hist, requests>>

SetRateKeepShadow(r, new_rate) ==
    [r EXCEPT !.hourly_rate = RealAffinity(new_rate)]

\* SET hourly_rate = ?, approved_hourly_rate = 0
SetRate(r, new_rate) ==
    [r EXCEPT !.hourly_rate = RealAffinity(new_rate), !.approved_hourly_rate = Num(0)]

\* SET approved_hourly_rate = hourly_rate
ApproveRate(r) == [r EXCEPT !.approved_hourly_rate = r.hourly_rate]

\* SET salary = ?, approved_salary = NULL
SetSalary(r, new_salary) ==
    [r EXCEPT !.salary = RealAffinity(new_salary), !.approved_salary = NULL]

\* SET approved_salary = salary
ApproveSalary(r) == [r EXCEPT !.approved_salary = r.salary]

MarkLeftKeepDate(r, today) == [r EXCEPT !.active = 0]

\* SET active=0, leave_date=?
MarkLeft(r, today) == [r EXCEPT !.active = 0, !.leave_date = today]

HistSet(h, id, op) == [i \in DOMAIN h |-> IF i = id THEN op ELSE h[i]]

\* POST /people/update_hourly_rate/<worker_id>
update_hourly_rate(caller, worker_id, new_rate) ==
    /\ IF roles_required(caller, {"md", "admin"}) /\ users[caller] \in {"md", "admin"}
       THEN /\ workers' = SqlUpdate(workers, worker_id, SetRate(workers[worker_id], new_rate))
            /\ people_hist' = [people_hist EXCEPT !.workers = HistSet(@, worker_id, "update")]
       ELSE UNCHANGED <<workers, people_hist>>
    /\ UNCHANGED <<users, daily_cash, staff, timesheets, seq, daily_hist, ts_hist, requests>>

\* GET /people/approve_hourly_rate/<worker_id>
approve_hourly_rate(caller, worker_id) ==
    /\ IF roles_required(caller, {"md", "admin"})
       THEN /\ workers' = SqlUpdate(workers, worker_id, ApproveRate(workers[worker_id]))
            /\ people_hist' = [people_hist EXCEPT !.workers = HistSet(@, worker_id, "approve")]
       ELSE UNCHANGED <<workers, people_hist>>
    /\ UNCHANGED <<users, daily_cash, staff, timesheets, seq, daily_hist, ts_hist, requests>>

\* POST /people/update_salary/<staff_id>
update_salary(caller, staff_id, new_salary) ==
    /\ IF roles_required(caller, {"md", "admin"})
       THEN /\ staff' = SqlUpdate(staff, staff_id, SetSalary(staff[staff_id], new_salary))
            /\ people_hist' = [people_hist EXCEPT !.staff = HistSet(@, staff_id, "update")]
       ELSE UNCHANGED <<staff, people_hist>>
    /\ UNCHANGED <<users, daily_cash, workers, timesheets, seq, daily_hist, ts_hist, requests>>

\* GET /people/approve_salary/<staff_id>
approve_salary(caller, staff_id) ==
    /\ IF roles_required(caller, {"md", "admin"})
       THEN /\ staff' = SqlUpdate(staff, staff_id, ApproveSalary(staff[staff_id]))
            /\ people_hist' = [people_hist EXCEPT !.staff = HistSet(@, staff_id, "approve")]
       ELSE UNCHANGED <<staff, people_hist>>
    /\ UNCHANGED <<users, daily_cash, workers, timesheets, seq, daily_hist, ts_hist, requests>>

\* GET /people/mark_left/<worker_id>
mark_left(caller, worker_id, today) ==
    /\ IF roles_required(caller, {"md", "admin"})
       THEN workers' = SqlUpdate(workers, worker_id, MarkLeft(workers[worker_id], today))
       ELSE UNCHANGED workers
    /\ UNCHANGED <<users, daily_cash, staff, timesheets, seq, daily_hist, ts_hist, people_hist, requests>>

\* GET /people/delete/<kind>/<pid>
delete_person(caller, kind, pid) ==
    /\ IF roles_required(caller, {"md", "admin"})
       THEN IF kind = "worker"
            THEN /\ workers' = SqlDelete(workers, pid)
                 /\ people_hist' = [people_hist EXCEPT !.workers = SqlDelete(@, pid)]
                 /\ UNCHANGED staff
            ELSE /\ staff' = SqlDelete(staff, pid)
                 /\ people_hist' = [people_hist EXCEPT !.staff = SqlDelete(@, pid)]
                 /\ UNCHANGED workers
       ELSE UNCHANGED <<workers, staff, people_hist>>
    /\ UNCHANGED <<users, daily_cash, timesheets, seq, daily_hist, ts_hist, requests>>

(***************************************************************************)
(* Timesheet capture and approval.                                         *)
(***************************************************************************)
\* SELECT id, name FROM workers WHERE active=1
ActiveWorkers == {i \in DOMAIN workers : workers[i].active = 1}

\* ORDER BY name (rows of equal name in rowid order)
RECURSIVE OrderByName(_)
OrderByName(S) ==
    IF S = {} THEN <<>>
    ELSE LET first == CHOOSE i \in S : \A j \in S :
                          \/ NameRank(workers[i].name) < NameRank(workers[j].name)
                          \/ (workers[i].name = workers[j].name /\ i <= j)
         IN  <<first>> \o OrderByName(S \ {first})

SavesHoursOrZero(h) == fpositive(h) \/ h = Num(0)

\* if h > 0
SavesHours(h) == fpositive(h)

TsRowApproved(the_day, wid, h, note, caller) ==
    [date |-> the_day, worker_id |-> wid, hours |-> SqlBind(h),
     note |-> IF note = NULL THEN Txt(<<>>) ELSE note,
     status |-> "approved", created_by |-> caller, approved_by |-> NULL, approved_at |-> NULL]

\* VALUES(?,?,?,?, 'pending', ?); approved_by and approved_at take the default, NULL.
TsRow(the_day, wid, h, note, caller) ==
    [date |-> the_day,
     worker_id |-> wid,
     hours |-> SqlBind(h),
     note |-> IF note = NULL THEN Txt(<<>>) ELSE note,
     status |-> "pending",
     created_by |-> caller,
     approved_by |-> NULL,
     approved_at |-> NULL]

\* for w in workers: the rows inserted, in order.
RECURSIVE CaptureRows(_, _, _, _)
CaptureRows(ws, the_day, form, caller) ==
    IF ws = <<>> THEN <<>>
    ELSE LET w == Head(ws)
             h == _f(form.hours[w])
             rest == CaptureRows(Tail(ws), the_day, form, caller)
         IN  IF SavesHours(h)
             THEN <<TsRow(the_day, w, h, form.notes[w], caller)>> \o rest
             ELSE rest

\* The rows one capture request inserts: none when the role gate refuses it.
Captured(caller, the_day, form) ==
    IF roles_required(caller, {"manager", "md", "admin"})
    THEN CaptureRows(OrderByName(ActiveWorkers), the_day, form, caller)
    ELSE <<>>

\* INSERT of rows under consecutive fresh rowids, then commit.
InsertAll(tbl, first, rows) ==
    [i \in DOMAIN tbl \cup {first + n - 1 : n \in 1..Len(rows)} |->
        IF i \in DOMAIN tbl THEN tbl[i] ELSE rows[i - first + 1]]

\* POST /timesheets?date=<the_day>
timesheets_page(caller, the_day, form) ==
    /\ LET rows == Captured(caller, the_day, form)
       IN  /\ seq.ts + Len(rows) - 1 <= MaxTs
           /\ timesheets' = InsertAll(timesheets, seq.ts, rows)
           /\ ts_hist' = InsertAll(ts_hist, seq.ts, [n \in 1..Len(rows) |-> NewHist])
           /\ seq' = [seq EXCEPT !.ts = @ + Len(rows)]
    /\ UNCHANGED <<users, daily_cash, workers, staff, daily_hist, people_hist, requests>>

\* GET /timesheets/approve/<tid>
approve_timesheet(caller, tid, now) ==
    /\ IF roles_required(caller, {"md", "admin"})
       THEN /\ timesheets' = SqlUpdate(timesheets, tid, ApproveRow(timesheets[tid], caller, now))
            /\ ts_hist' = SqlUpdate(ts_hist, tid, HistApprove(ts_hist[tid], timesheets[tid], users[caller]))
       ELSE UNCHANGED <<timesheets, ts_hist>>
    /\ UNCHANGED <<users, daily_cash, workers, staff, seq, daily_hist, people_hist, requests>>

\* GET /timesheets/reset/<tid>
reset_timesheet(caller, tid) ==
    /\ IF roles_required(caller, {"md", "admin"})
       THEN /\ timesheets' = SqlUpdate(timesheets, tid, ResetRow(timesheets[tid], "pending"))
            /\ ts_hist' = SqlUpdate(ts_hist, tid, HistReset(ts_hist[tid], timesheets[tid]))
       ELSE UNCHANGED <<timesheets, ts_hist>>
    /\ UNCHANGED <<users, daily_cash, workers, staff, seq, daily_hist, people_hist, requests>>

\* GET /timesheets/delete/<tid>
delete_timesheet(caller, tid) ==
    /\ IF roles_required(caller, {"md", "admin"})
       THEN /\ timesheets' = SqlDelete(timesheets, tid)
            /\ ts_hist' = SqlDelete(ts_hist, tid)
       ELSE UNCHANGED <<timesheets, ts_hist>>
    /\ UNCHANGED <<users, daily_cash, workers, staff, seq, daily_hist, people_hist, requests>>

\* GET /timesheets/reject/<tid>
reject_timesheet(caller, tid) ==
    IF roles_required(caller, {"md", "admin"})
    THEN delete_timesheet(caller, tid)
    ELSE UNCHANGED vars

(***************************************************************************)
(* User accounts.                                                          *)
(***************************************************************************)
\* POST /users
users_page(caller, role) ==
    /\ seq.users <= MaxUsers
    /\ IF roles_required(caller, {"md", "admin"})
       THEN /\ users' = SqlInsert(users, seq.users, role)
            /\ seq' = [seq EXCEPT !.users = @ + 1]
       ELSE UNCHANGED <<users, seq>>
    /\ UNCHANGED <<daily_cash, workers, staff, timesheets, daily_hist, ts_hist, people_hist, requests>>

MdMayDeleteAny(target_role) == TRUE

\* target["role"] != "manager" is refused to an md
MdMayDelete(target_role) == target_role = "manager"

\* GET /users/delete/<uid>
delete_user(caller, uid) ==
    /\ IF roles_required(caller, {"md", "admin"})
       THEN IF users[caller] = "manager"
            THEN UNCHANGED users
            ELSE IF uid \notin DOMAIN users
            THEN UNCHANGED users
            ELSE IF users[caller] = "md" /\ ~MdMayDelete(users[uid])
            THEN UNCHANGED users
            ELSE users' = SqlDelete(users, uid)
       ELSE UNCHANGED users
    /\ UNCHANGED <<daily_cash, workers, staff, timesheets, seq, daily_hist, ts_hist, people_hist, requests>>

(***************************************************************************)
(* The initial store: the seeded accounts and empty tables.                *)
(***************************************************************************)
Init ==
    /\ users = SeedUsers
    /\ daily_cash = EmptyTable
    /\ workers = EmptyTable
    /\ staff = EmptyTable
    /\ timesheets = EmptyTable
    /\ seq = [users |-> Cardinality(DOMAIN SeedUsers) + 1, daily |-> 1, workers |-> 1,
              staff |-> 1, ts |-> 1]
    /\ daily_hist = EmptyTable
    /\ ts_hist = EmptyTable
    /\ people_hist = [workers |-> EmptyTable, staff |-> EmptyTable]
    /\ requests = [inflight |-> {}, served |-> 0, last |-> NoWrites]

(***************************************************************************)
(* Approval requests served concurrently.  Each request runs on a          *)
(* connection of its own: the role gate, then one UPDATE or DELETE         *)
(* statement, then commit.  SQLite lets one connection write at a time:    *)
(* the statement takes the write lock, commit publishes the change and     *)
(* releases the lock, and until then other connections see the store as it *)
(* was last committed.                                                     *)
(***************************************************************************)
\* No connection holds the write lock.
LockFree == \A q \in requests.inflight : q.pc # "written"

\* A request for approve, reset or delete of entry id of a table arrives and
\* passes the role gate, or is turned away by it.
Arrive(op, tbl, caller, id) ==
    /\ requests.served < MaxReq
    /\ requests' = [requests EXCEPT
          !.served = @ + 1,
          !.inflight = IF roles_required(caller, {"admin", "md"})
                       THEN @ \cup {[r |-> requests.served + 1, op |-> op, tbl |-> tbl,
                                     caller |-> caller, id |-> id, now |-> NULL, pc |-> "ready"]}
                       ELSE @]
    /\ UNCHANGED <<users, daily_cash, workers, staff, timesheets, seq, daily_hist, ts_hist,
                   people_hist>>

\* conn.execute(...): the statement runs with the clock reading taken for it
\* and takes the write lock.
Execute(q, now) ==
    /\ q \in requests.inflight
    /\ q.pc = "ready"
    /\ LockFree
    /\ requests' = [requests EXCEPT !.inflight = (@ \ {q}) \cup
          {[q EXCEPT !.pc = "written",
                     !.now = IF q.op = "approve" THEN Clock(now) ELSE NULL]}]
    /\ UNCHANGED <<users, daily_cash, workers, staff, timesheets, seq, daily_hist, ts_hist,
                   people_hist>>

\* conn.execute(...) while another connection holds the write lock past the
\* busy timeout: sqlite3.OperationalError, nothing is written.
Locked(q) ==
    /\ q \in requests.inflight
    /\ q.pc = "ready"
    /\ ~LockFree
    /\ requests' = [requests EXCEPT !.inflight = @ \ {q}]
    /\ UNCHANGED <<users, daily_cash, workers, staff, timesheets, seq, daily_hist, ts_hist,
                   people_hist>>

WrittenStatusFirst(q, r0, unapproved) ==
    IF q.op = "approve" THEN [r0 EXCEPT !.status = "approved"] ELSE [r0 EXCEPT !.status = unapproved]

\* The row a committed statement leaves in place of row r0.
Written(q, r0, unapproved) ==
    IF q.op = "approve" THEN ApproveRow(r0, q.caller, q.now.at) ELSE ResetRow(r0, unapproved)

\* The table a committed statement leaves.
Commits(q, tbl, unapproved) ==
    IF q.op = "delete" THEN SqlDelete(tbl, q.id)
    ELSE SqlUpdate(tbl, q.id, Written(q, tbl[q.id], unapproved))

\* The history of a table's rows after a committed statement.
CommitsHist(q, hist, tbl) ==
    IF q.op = "delete" THEN SqlDelete(hist, q.id)
    ELSE IF q.op = "approve"
    THEN SqlUpdate(hist, q.id, HistApprove(hist[q.id], tbl[q.id], users[q.caller]))
    ELSE SqlUpdate(hist, q.id, HistReset(hist[q.id], tbl[q.id]))

\* The request is served; if its statement matched a row it is the last write
\* to that entry.
Served(q, tbl) ==
    [requests EXCEPT
        !.inflight = @ \ {q},
        !.last[q.tbl] = IF q.id \in DOMAIN tbl
                        THEN [i \in DOMAIN @ \cup {q.id} |->
                                 IF i = q.id THEN [op |-> q.op, caller |-> q.caller, now |-> q.now]
                                 ELSE @[i]]
                        ELSE @]

\* conn.commit(): the change becomes the stored state and the lock is released.
Commit(q) ==
    /\ q \in requests.inflight
    /\ q.pc = "written"
    /\ IF q.tbl = "daily_cash"
       THEN /\ daily_cash' = Commits(q, daily_cash, "submitted")
            /\ daily_hist' = CommitsHist(q, daily_hist, daily_cash)
            /\ requests' = Served(q, daily_cash)
            /\ UNCHANGED <<timesheets, ts_hist>>
       ELSE /\ timesheets' = Commits(q, timesheets, "pending")
            /\ ts_hist' = CommitsHist(q, ts_hist, timesheets)
            /\ requests' = Served(q, timesheets)
            /\ UNCHANGED <<daily_cash, daily_hist>>
    /\ UNCHANGED <<users, workers, staff, seq, people_hist>>

(***************************************************************************)
(* Request inputs the specifications draw from.                            *)
(***************************************************************************)
\* str(n) for n >= 0, as a sequence of characters.
DigitChar(d) ==
    CASE d = 0 -> "0" [] d = 1 -> "1" [] d = 2 -> "2" [] d = 3 -> "3" [] d = 4 -> "4"
      [] d = 5 -> "5" [] d = 6 -> "6" [] d = 7 -> "7" [] d = 8 -> "8" [] d = 9 -> "9"

RECURSIVE Numeral(_)
Numeral(n) == IF n < 10 THEN <<DigitChar(n)>> ELSE Numeral(n \div 10) \o <<DigitChar(n % 10)>>

Missing == NULL
Blank == Txt(<<>>)
Junk == Txt(<<"1", "x">>)
Minus == Txt(<<"-", "2">>)
NotANumber == Txt(<<"n", "a", "n">>)
Infinite == Txt(<<"i", "n", "f">>)

\* The numeric inputs of the cash form in the order daily() reads them.
NumFieldSeq ==
    <<"total_kg", "amount_tk", "green_leaf_bill_payment", "staff_salary", "labour_bill",
      "production_cost", "coal", "diesel", "electricity", "other_exp", "capital_cost",
      "machineries", "assets_purchase", "construction", "cash_receive", "add_amount",
      "less_amount">>

FieldIndex(x) == CHOOSE i \in 1..Len(NumFieldSeq) : NumFieldSeq[i] = x

\* A form whose numeric fields hold pairwise distinct powers of two.
PowersForm == [x \in NumFields |-> Txt(Numeral(2 ^ (FieldIndex(x) - 1)))]

CashNums ==
    { [x \in NumFields |-> Missing],
      PowersForm,
      [PowersForm EXCEPT !["coal"] = Junk, !["machineries"] = Blank, !["add_amount"] = Missing],
      [PowersForm EXCEPT !["diesel"] = Minus, !["less_amount"] = Txt(<<"+", "9">>)],
      [PowersForm EXCEPT !["coal"] = NotANumber],
      [PowersForm EXCEPT !["cash_receive"] = Infinite, !["less_amount"] = Infinite] }

CashForm(num, date, note, voucher) ==
    [num |-> num, date |-> date, note |-> note, voucher |-> voucher]

CashForms ==
    { CashForm(num, Missing, Txt(<<" ", "o", "k", " ">>), Missing) : num \in CashNums }

EntryCashForms ==
    { CashForm([x \in NumFields |-> Missing], Date(6, 6), Missing, Txt(<<"v">>)),
      CashForm(PowersForm, Missing, Txt(<<"o", "k">>), Missing) }

\* The day a request is served on.
Today == Date(6, 7)

\* The days timesheets are captured for: around two week boundaries and a month end.
CaptureDays == {Date(6, 6), Date(6, 7), Date(6, 8), Date(6, 30)}

HourTokens == {Missing, Txt(<<"3">>), Txt(<<"5">>)}

\* What a capture form can hold for one worker.
AnyHourTokens ==
    {Missing, Blank, Junk, Minus, NotANumber, Txt(<<"0">>), Txt(<<"3">>), Txt(<<"1", "2">>),
     Infinite}

RateTokens == {Missing, Junk, Txt(<<"0">>), Txt(<<"5">>)}

WorkerForm(name, rate) ==
    [kind |-> "worker", name |-> name, join_date |-> Missing, note |-> Missing,
     hourly_rate |-> rate]

StaffForm(name, salary) ==
    [kind |-> "staff", name |-> name, join_date |-> Missing, position |-> Missing,
     salary |-> salary]

OtherForm == [kind |-> "other"]

HoursForm(hours) == [hours |-> hours, notes |-> [w \in DOMAIN hours |-> Missing]]

DailyIds == 1..MaxDaily
TsIds == 1..MaxTs
WorkerIds == 1..MaxWorkers
StaffIds == 1..MaxStaff
UserIds == 1..MaxUsers

(***************************************************************************)
(* Specifications.                                                         *)
(***************************************************************************)
\* Cash capture and its approval workflow.
NextCash ==
    \/ \E c \in Staffers({"data_entry"}) \cup {Anonymous}, f \in CashForms, nullable \in BOOLEAN :
           daily(c, f, Today, "T1", nullable)
    \/ \E c \in Sessions, id \in DailyIds, now \in Stamps : approve_daily(c, id, now)
    \/ \E c \in Sessions, id \in DailyIds : unapprove_daily(c, id)
    \/ \E c \in Sessions, id \in DailyIds : delete_daily(c, id)
    \/ \E c \in Sessions, id \in DailyIds : reject_daily(c, id)

SpecCash == Init /\ [][NextCash]_vars

\* Both approval workflows: cash entries and timesheet entries.
NextEntries ==
    \/ \E c \in Staffers({"data_entry"}) \cup {Anonymous}, f \in EntryCashForms :
           daily(c, f, Today, "T1", TRUE)
    \/ \E c \in Sessions, id \in DailyIds : approve_daily(c, id, "T1")
    \/ \E c \in Sessions, id \in DailyIds : unapprove_daily(c, id)
    \/ \E c \in Sessions, id \in DailyIds : delete_daily(c, id)
    \/ \E c \in Sessions, id \in DailyIds : reject_daily(c, id)
    \/ \E c \in Staffers({"manager", "data_entry"}) :
           people(c, WorkerForm("Amina", Txt(<<"5">>)), Today)
    \/ \E c \in Staffers({"manager", "data_entry"}), h \in [WorkerIds -> {Missing, Txt(<<"8">>)}] :
           timesheets_page(c, Today, HoursForm(h))
    \/ \E c \in Sessions, id \in TsIds : approve_timesheet(c, id, "T1")
    \/ \E c \in Sessions, id \in TsIds : reset_timesheet(c, id)
    \/ \E c \in Sessions, id \in TsIds : delete_timesheet(c, id)
    \/ \E c \in Sessions, id \in TsIds : reject_timesheet(c, id)

SpecEntries == Init /\ [][NextEntries]_vars

\* User accounts.
NextUsers ==
    \/ \E c \in Sessions, r \in Roles : users_page(c, r)
    \/ \E c \in Sessions, uid \in UserIds : delete_user(c, uid)

SpecUsers == Init /\ [][NextUsers]_vars

\* The roster and the approval of rates and salaries.
NextPeople ==
    \/ \E c \in Sessions, r \in RateTokens : people(c, WorkerForm("Amina", r), Today)
    \/ \E c \in Sessions, r \in RateTokens : people(c, StaffForm("Salma", r), Today)
    \/ \E c \in Sessions : people(c, OtherForm, Today)
    \/ \E c \in Sessions, id \in WorkerIds, r \in RateTokens : update_hourly_rate(c, id, r)
    \/ \E c \in Sessions, id \in WorkerIds : approve_hourly_rate(c, id)
    \/ \E c \in Sessions, id \in StaffIds, r \in RateTokens : update_salary(c, id, r)
    \/ \E c \in Sessions, id \in StaffIds : approve_salary(c, id)
    \/ \E c \in Sessions, kind \in {"worker", "staff"}, id \in WorkerIds \cup StaffIds :
           delete_person(c, kind, id)

SpecPeople == Init /\ [][NextPeople]_vars

\* The roster and timesheet capture, which the hour reports read.
NextHours ==
    \/ \E c \in Staffers({"manager", "data_entry"}), n \in {"Amina", "Bashir"} :
           people(c, WorkerForm(n, Txt(<<"5">>)), Today)
    \/ \E c \in Staffers({"md", "manager"}), id \in WorkerIds : mark_left(c, id, Today)
    \/ \E c \in Staffers({"md", "manager"}), id \in WorkerIds : delete_person(c, "worker", id)
    \/ \E c \in Staffers({"manager", "data_entry"}), d \in CaptureDays,
          h \in [WorkerIds -> HourTokens] :
           timesheets_page(c, d, HoursForm(h))

SpecHours == Init /\ [][NextHours]_vars

\* Timesheet capture for one day.
NextCapture ==
    \/ \E c \in Staffers({"manager", "data_entry"}), n \in {"Amina", "Bashir"} :
           people(c, WorkerForm(n, Txt(<<"5">>)), Today)
    \/ \E c \in Staffers({"md", "manager"}), id \in WorkerIds : mark_left(c, id, Today)
    \/ \E c \in Staffers({"manager", "data_entry"}) \cup {Anonymous},
          h \in [WorkerIds -> {Blank, Txt(<<"3">>), Txt(<<"1", "2">>)}] :
           timesheets_page(c, Today, HoursForm(h))

SpecCapture == Init /\ [][NextCapture]_vars

\* The roster of workers: creation, departure, rates and deletion.
NextRoster ==
    \/ \E c \in Sessions, r \in {Txt(<<"0">>), Txt(<<"5">>)} :
           people(c, WorkerForm("Amina", r), Today)
    \/ \E c \in Sessions, id \in WorkerIds : mark_left(c, id, Today)
    \/ \E c \in Sessions, id \in WorkerIds, r \in {Missing, Txt(<<"5">>)} :
           update_hourly_rate(c, id, r)
    \/ \E c \in Sessions, id \in WorkerIds : approve_hourly_rate(c, id)
    \/ \E c \in Sessions, id \in WorkerIds : delete_person(c, "worker", id)

SpecRoster == Init /\ [][NextRoster]_vars

\* Approve, reset and delete requests racing on entries of both tables.
NextRace ==
    \/ \E c \in Staffers({"data_entry"}) :
           LockFree /\ daily(c, CashForm(PowersForm, Missing, Missing, Missing), Today, "T1", TRUE)
    \/ \E c \in Staffers({"manager"}) :
           LockFree /\ people(c, WorkerForm("Amina", Txt(<<"5">>)), Today)
    \/ \E c \in Staffers({"manager"}), h \in [WorkerIds -> {Txt(<<"8">>)}] :
           LockFree /\ timesheets_page(c, Today, HoursForm(h))
    \/ \E op \in {"approve", "reset", "delete"}, tbl \in {"daily_cash", "timesheets"},
          c \in Staffers({"admin", "md", "manager"}), id \in {1} :
           Arrive(op, tbl, c, id)
    \/ \E q \in requests.inflight, now \in Stamps : Execute(q, now)
    \/ \E q \in requests.inflight : Locked(q)
    \/ \E q \in requests.inflight : Commit(q)

SpecRace == Init /\ [][NextRace]_vars

\* The whole application.
Next ==
    \/ NextEntries
    \/ NextUsers
    \/ NextPeople
    \/ NextHours
    \/ NextCapture
    \/ NextCash
    \/ NextRoster
    \/ NextRace

Spec == Init /\ [][Next]_vars

(***************************************************************************)
(* Properties of the approval workflow.                                    *)
(***************************************************************************)
ApprovalFieldsAgree(r, unapproved) ==
    /\ r.status = "approved" => (r.approved_by # NULL /\ r.approved_at # NULL)
    /\ r.status = unapproved => (r.approved_by = NULL /\ r.approved_at = NULL)

\* C1: in every reachable state every stored cash entry and timesheet entry has
\* approver and timestamp both set when its status is approved, and both null
\* when its status is submitted (cash) or pending (timesheet).
C1_ApprovalFields ==
    /\ \A id \in DOMAIN daily_cash : ApprovalFieldsAgree(daily_cash[id], "submitted")
    /\ \A id \in DOMAIN timesheets : ApprovalFieldsAgree(timesheets[id], "pending")

\* An approved entry and an entry reset after approval sit in each table, and a
\* row has been deleted.
C1_Witness ==
    /\ \E i, j \in DOMAIN daily_cash :
          daily_cash[i].status = "approved" /\ daily_hist[j].last = "approve_reset"
    /\ \E i \in DOMAIN timesheets : timesheets[i].status = "approved"
    /\ seq.ts > MaxTs /\ Cardinality(DOMAIN timesheets) < MaxTs

Unprivileged(c) == c \notin DOMAIN users \/ users[c] \notin {"admin", "md"}

\* C2: a caller whose role is not admin or md (or who holds no session) who
\* invokes approve, reset, delete or reject on any cash or timesheet entry leaves
\* both tables exactly as they were.
C2_DeniedLeavesRows ==
    [][\A c \in Sessions : Unprivileged(c) =>
          /\ \A id \in DailyIds :
                (\/ \E now \in Stamps : approve_daily(c, id, now)
                 \/ unapprove_daily(c, id)
                 \/ delete_daily(c, id)
                 \/ reject_daily(c, id))
                => (daily_cash' = daily_cash /\ timesheets' = timesheets)
          /\ \A id \in TsIds :
                (\/ \E now \in Stamps : approve_timesheet(c, id, now)
                 \/ reset_timesheet(c, id)
                 \/ delete_timesheet(c, id)
                 \/ reject_timesheet(c, id))
                => (daily_cash' = daily_cash /\ timesheets' = timesheets)]_vars

\* Unprivileged sessions exist next to entries of both kinds, approved and not.
C2_Witness ==
    /\ \E c \in Sessions : c \in DOMAIN users /\ users[c] = "manager"
    /\ \E c \in Sessions : c \notin DOMAIN users
    /\ \E i, j \in DOMAIN daily_cash :
          daily_cash[i].status = "approved" /\ daily_cash[j].status = "submitted"
    /\ \E i, j \in DOMAIN timesheets :
          timesheets[i].status = "approved" /\ timesheets[j].status = "pending"

\* C3: an entry that was submitted/pending, was approved and was then reset is
\* exactly the row it was before the approval: status submitted (cash) or pending
\* (timesheet), approver and timestamp null, every other field as before.
C3_ApproveResetRoundTrip ==
    /\ \A id \in DOMAIN daily_cash :
          daily_hist[id].last = "approve_reset" =>
             /\ daily_cash[id] = daily_hist[id].pre
             /\ daily_cash[id].status = "submitted"
             /\ daily_cash[id].approved_by = NULL /\ daily_cash[id].approved_at = NULL
    /\ \A id \in DOMAIN timesheets :
          ts_hist[id].last = "approve_reset" =>
             /\ timesheets[id] = ts_hist[id].pre
             /\ timesheets[id].status = "pending"
             /\ timesheets[id].approved_by = NULL /\ timesheets[id].approved_at = NULL

\* A cash entry and a timesheet entry have each been approved and then reset.
C3_Witness ==
    /\ \E id \in DOMAIN daily_cash :
          daily_hist[id].last = "approve_reset" /\ fpositive(daily_cash[id].total_cost)
    /\ \E id \in DOMAIN timesheets : ts_hist[id].last = "approve_reset"

\* C4: an entry is created submitted/pending, and an entry is approved only if
\* the last request that changed its approval state was an approve by an admin
\* or md account.
C4_ApprovedOnlyByApproval ==
    /\ \A id \in DOMAIN daily_cash :
          /\ daily_hist[id].last = "create" => daily_cash[id].status = "submitted"
          /\ daily_cash[id].status = "approved" =>
                (daily_hist[id].last = "approve" /\ daily_hist[id].by \in {"admin", "md"})
    /\ \A id \in DOMAIN timesheets :
          /\ ts_hist[id].last = "create" => timesheets[id].status = "pending"
          /\ timesheets[id].status = "approved" =>
                (ts_hist[id].last = "approve" /\ ts_hist[id].by \in {"admin", "md"})

\* A cash entry approved by the md next to one just created, and a timesheet
\* entry approved by the admin next to one just created.
C4_Witness ==
    /\ \E i, j \in DOMAIN daily_cash :
          /\ daily_cash[i].status = "approved" /\ daily_hist[i].by = "md"
          /\ daily_hist[j].last = "create"
    /\ \E i, j \in DOMAIN timesheets :
          /\ timesheets[i].status = "approved" /\ ts_hist[i].by = "admin"
          /\ ts_hist[j].last = "create"

(***************************************************************************)
(* Properties of account deletion.                                         *)
(***************************************************************************)
\* C5: delete_user(uid) removes the target, and nothing else, when the actor is
\* an admin, or an md and the target is a manager; for every other actor and
\* target the users table is unchanged.
C5_DeleteUserGate ==
    [][\A c \in Sessions, uid \in UserIds :
          delete_user(c, uid) =>
             users' = IF /\ c \in DOMAIN users /\ uid \in DOMAIN users
                         /\ \/ users[c] = "admin"
                            \/ (users[c] = "md" /\ users[uid] = "manager")
                      THEN [i \in DOMAIN users \ {uid} |-> users[i]]
                      ELSE users]_vars

\* The md is the only approver left (the admin account is gone) and a manager
\* account has been removed while another account remains.
C5_Witness ==
    /\ \A c \in DOMAIN users : users[c] \notin {"admin", "manager"}
    /\ \E c \in DOMAIN users : users[c] = "md"
    /\ \E c \in DOMAIN users : users[c] = "data_entry"

(***************************************************************************)
(* Hour reports: the monthly grid and the range matrix.                    *)
(***************************************************************************)
\* FROM timesheets t JOIN workers w ON w.id = t.worker_id
Joined == {i \in DOMAIN timesheets : timesheets[i].worker_id \in DOMAIN workers}

WorkerOf(i) == workers[timesheets[i].worker_id].name

\* SUM(t.hours) over a set of timesheet rows.
RECURSIVE SumHours(_)
SumHours(S) ==
    IF S = {} THEN Num(0)
    ELSE LET i == CHOOSE j \in S : TRUE
         IN  fadd(timesheets[i].hours, SumHours(S \ {i}))

\* strftime('%Y-%m-%d', t.date, 'weekday 6'): the date moved forward to the
\* next day that is a Saturday (SQLite counts Sunday as 0), unmoved if it is one.
week_start(d) == strftime(strptime(d) + (6 - ((weekday(d) + 1) % 7)))

\* get_week_start(date_str)
get_week_start(d) == strftime(strptime(d) + ((5 - weekday(d)) % 7))

\* WHERE substr(t.date, 1, 7) = ?
InMonth(month) == {i \in Joined : timesheets[i].date.mo = month}

\* GROUP BY week_start, w.name: (week_start, worker) -> SUM(hours)
week_rows(month) ==
    LET rows == InMonth(month)
        keys == {<<week_start(timesheets[i].date), WorkerOf(i)>> : i \in rows}
    IN  [key \in keys |->
            SumHours({i \in rows : /\ week_start(timesheets[i].date) = key[1]
                                   /\ WorkerOf(i) = key[2]})]

\* The days of the month, first to last.
grid_dates(month) == [d \in 1..MonthDays[month] |-> Date(month, d)]

grid_workers(month) ==
    {workers[w].name : w \in ActiveWorkers} \cup {key[2] : key \in DOMAIN week_rows(month)}

\* Zeros for every day of the month, then one cell set per weekly row (a key
\* that is no day of the month is added to the worker's dict).
grid_data(month) ==
    LET wr == week_rows(month)
        days == {Date(month, d) : d \in 1..MonthDays[month]}
    IN  [w \in grid_workers(month) |->
            [d \in days \cup {key[1] : key \in {x \in DOMAIN wr : x[2] = w}} |->
                IF <<d, w>> \in DOMAIN wr THEN wr[<<d, w>>] ELSE Num(0)]]

RECURSIVE SumCells(_, _)
SumCells(row, ds) ==
    IF ds = <<>> THEN Num(0) ELSE fadd(row[Head(ds)], SumCells(row, Tail(ds)))

grid_totals(month) ==
    LET gd == grid_data(month)
    IN  [w \in DOMAIN gd |-> SumCells(gd[w], grid_dates(month))]

\* while cur <= d1: dates.append(cur.strftime(...)); cur += timedelta(days=1)
RECURSIVE DateLoop(_, _)
DateLoop(cur, d1) ==
    IF cur <= d1 THEN <<strftime(cur)>> \o DateLoop(cur + 1, d1) ELSE <<>>

\* WHERE t.date BETWEEN ? AND ?  ORDER BY t.date, w.name
RECURSIVE OrderByDateName(_)
OrderByDateName(S) ==
    IF S = {} THEN <<>>
    ELSE LET first == CHOOSE i \in S : \A j \in S :
                 \/ i = j
                 \/ ~DateLE(timesheets[j].date, timesheets[i].date)
                 \/ /\ timesheets[i].date = timesheets[j].date
                    /\ \/ NameRank(WorkerOf(i)) < NameRank(WorkerOf(j))
                       \/ (WorkerOf(i) = WorkerOf(j) /\ i < j)
         IN  <<first>> \o OrderByDateName(S \ {first})

RangeRows(start, end) ==
    OrderByDateName({i \in Joined : /\ DateLE(start, timesheets[i].date)
                                    /\ DateLE(timesheets[i].date, end)})

CellSet(old, h) == h

\* mat[worker][date] += hours
CellAdd(old, h) == fadd(old, h)

RECURSIVE FillMatrix(_, _)
FillMatrix(mat, rows) ==
    IF rows = <<>> THEN mat
    ELSE LET i == Head(rows)
             w == WorkerOf(i)
             d == timesheets[i].date
         IN  FillMatrix([mat EXCEPT ![w][d] = CellAdd(@, timesheets[i].hours)], Tail(rows))

\* GET /export/timesheets_matrix.xlsx?start=&end= : the header dates and the
\* sheet rows (worker -> cells by date, total).
export_timesheets_matrix(start, end) ==
    LET dates == DateLoop(strptime(start), strptime(end))
        rows == RangeRows(start, end)
        names == {WorkerOf(rows[n]) : n \in 1..Len(rows)}
        zero == [w \in names |-> [d \in {dates[n] : n \in 1..Len(dates)} |-> Num(0)]]
        mat == FillMatrix(zero, rows)
    IN  [dates |-> dates,
         cells |-> mat,
         total |-> [w \in names |-> SumCells(mat[w], dates)]]

(***************************************************************************)
(* Properties of the hour reports.                                         *)
(***************************************************************************)
\* The month the grid is drawn for.
GridMonth == Today.mo

EntriesOf(name, S) == {i \in S : WorkerOf(i) = name}

\* C6: in the monthly grid, the cell of worker w under a Saturday S holds the
\* hours of w's entries of the month dated S through S + 6 days (the following
\* Friday), and every other cell holds 0.
C6_WeekRunsSaturdayToFriday ==
    LET gd == grid_data(GridMonth)
    IN  \A w \in DOMAIN gd : \A n \in 1..MonthDays[GridMonth] :
           LET S == Date(GridMonth, n)
           IN  gd[w][S] =
                  IF weekday(S) = 5
                  THEN SumHours({i \in EntriesOf(w, InMonth(GridMonth)) :
                                    /\ strptime(timesheets[i].date) >= strptime(S)
                                    /\ strptime(timesheets[i].date) <= strptime(S) + 6})
                  ELSE Num(0)

\* The spec's example does hold: one entry on Saturday 2025-06-07 is shown
\* under 2025-06-07.
C6_SaturdayExample ==
    (/\ Cardinality(DOMAIN timesheets) = 1
     /\ \E i \in Joined : timesheets[i].date = Date(6, 7))
    => \E i \in Joined :
          LET gd == grid_data(GridMonth)
          IN  \A n \in 1..MonthDays[GridMonth] :
                 gd[WorkerOf(i)][Date(GridMonth, n)] =
                    IF n = 7 THEN timesheets[i].hours ELSE Num(0)

\* The ends of the ranges the matrix is exported for.
RangeEnds == {Date(5, 30), Date(6, 7), Date(6, 8), Date(7, 1)}

AllDates == {Date(mo, dd) : mo \in 1..12, dd \in 1..31} \ {Date(2, 29), Date(2, 30),
                Date(2, 31), Date(4, 31), Date(6, 31), Date(9, 31), Date(11, 31)}

\* C7: the range matrix has one column per calendar day from start to end, in
\* order, a row per worker with entries in the range, and each cell is the sum
\* of the hours of all that worker's entries dated exactly that day.
C7_RangeMatrixSums ==
    \A start \in RangeEnds, end \in RangeEnds :
       LET x == export_timesheets_matrix(start, end)
           days == {d \in AllDates : DateLE(start, d) /\ DateLE(d, end)}
           inRange == {i \in Joined : timesheets[i].date \in days}
       IN  /\ Len(x.dates) = Cardinality(days)
           /\ \A n \in 1..Len(x.dates) : x.dates[n] \in days
           /\ \A n \in 1..(Len(x.dates) - 1) :
                 DateLE(x.dates[n], x.dates[n + 1]) /\ x.dates[n] # x.dates[n + 1]
           /\ DOMAIN x.cells = {WorkerOf(i) : i \in inRange}
           /\ \A w \in DOMAIN x.cells : \A d \in days :
                 x.cells[w][d] = SumHours({i \in EntriesOf(w, inRange) : timesheets[i].date = d})

\* Two entries of one worker on the same Saturday inside an exported range,
\* with different hours.
C7_Witness ==
    \E i, j \in Joined :
       /\ i # j /\ WorkerOf(i) = WorkerOf(j)
       /\ timesheets[i].date = Date(6, 7) /\ timesheets[j].date = Date(6, 7)
       /\ timesheets[i].hours = Num(3) /\ timesheets[j].hours = Num(5)
       /\ export_timesheets_matrix(Date(5, 30), Date(6, 8)).cells[WorkerOf(i)][Date(6, 7)] = Num(8)

(***************************************************************************)
(* Properties of timesheet capture.                                        *)
(***************************************************************************)
\* The form values that are positive numbers, and the number each one is.
PositiveInputs == {Txt(<<"3">>), Txt(<<"1", "2">>), Infinite}

InputValue(tok) ==
    IF tok = Txt(<<"3">>) THEN Num(3) ELSE IF tok = Infinite THEN Inf(1) ELSE Num(12)

\* C8: a capture request for a day inserts exactly one new pending row of that
\* day for each active worker whose submitted hours are a positive number, none
\* for a worker whose hours are zero, blank, unparsable, negative or missing, none
\* for an inactive worker, changes no stored row, and every stored row has
\* hours > 0.
C8_CaptureInsertsPositiveOnly ==
    /\ \A i \in DOMAIN timesheets : fpositive(timesheets[i].hours)
    /\ \A c \in Sessions, h \in [WorkerIds -> AnyHourTokens] :
          LET rows == Captured(c, Today, HoursForm(h))
              after == InsertAll(timesheets, seq.ts, rows)
              new == DOMAIN after \ DOMAIN timesheets
              served == c \in DOMAIN users /\ users[c] \in {"manager", "md", "admin"}
          IN  /\ \A i \in DOMAIN timesheets : after[i] = timesheets[i]
              /\ \A w \in WorkerIds :
                    Cardinality({i \in new : after[i].worker_id = w}) =
                       IF /\ served
                          /\ w \in DOMAIN workers /\ workers[w].active = 1
                          /\ h[w] \in PositiveInputs
                       THEN 1 ELSE 0
              /\ \A i \in new :
                    /\ after[i].date = Today
                    /\ after[i].status = "pending"
                    /\ after[i].hours = InputValue(h[after[i].worker_id])
                    /\ fpositive(after[i].hours)

\* Two rows are stored for one worker and day, next to a worker who has left.
C8_Witness ==
    /\ \E i, j \in DOMAIN timesheets :
          /\ i # j
          /\ timesheets[i].worker_id = timesheets[j].worker_id
          /\ timesheets[i].date = timesheets[j].date
    /\ \E w \in DOMAIN workers : workers[w].active = 0
    /\ \E w \in DOMAIN workers : workers[w].active = 1

(***************************************************************************)
(* Properties of cash capture.                                             *)
(***************************************************************************)
\* a + b of two stored amounts; no amount when either is NULL or the sum is not
\* a number.
Plus(a, b) ==
    IF a = NULL \/ b = NULL \/ a = NaN \/ b = NaN THEN NaN
    ELSE IF a.k = "inf" /\ b.k = "inf" THEN (IF a.sign = b.sign THEN a ELSE NaN)
    ELSE IF a.k = "inf" THEN a
    ELSE IF b.k = "inf" THEN b
    ELSE Num(a.n + b.n)

Less(a, b) ==
    Plus(a, IF b = NULL THEN NULL ELSE IF b.k = "inf" THEN Inf(0 - b.sign) ELSE Num(0 - b.n))

SumsAgree(r) ==
    /\ r.total_cost =
          Plus(Plus(Plus(Plus(Plus(Plus(Plus(r.green_leaf_bill_payment, r.staff_salary),
               r.labour_bill), r.production_cost), r.coal), r.diesel), r.electricity),
               r.other_exp)
    /\ r.fixed_cost =
          Plus(Plus(Plus(r.capital_cost, r.machineries), r.assets_purchase), r.construction)
    /\ r.grand_total = Plus(r.total_cost, r.fixed_cost)
    /\ r.net_cash = Less(Plus(r.cash_receive, r.add_amount), r.less_amount)

Amounts(r) ==
    <<[x \in NumFields |-> r[x]], r.total_cost, r.fixed_cost, r.grand_total, r.net_cash>>

\* C9: every persisted cash entry has total_cost, fixed_cost, grand_total and
\* net_cash equal to the sums of its stored inputs, and no request changes an
\* input or a derived sum of a row once it is written.
C9_DerivedSums ==
    [][/\ \A id \in DOMAIN daily_cash' : SumsAgree(daily_cash'[id])
       /\ \A id \in DOMAIN daily_cash \cap DOMAIN daily_cash' :
             Amounts(daily_cash'[id]) = Amounts(daily_cash[id])]_vars

\* An entry whose inputs are pairwise distinct amounts has been written and
\* then approved, next to one written from unparsable and blank inputs.
C9_Witness ==
    \E i, j \in DOMAIN daily_cash :
       /\ daily_cash[i].coal = Num(64) /\ daily_cash[i].total_cost = Num(1020)
       /\ daily_cash[i].status = "approved"
       /\ daily_cash[j].coal = Num(0) /\ daily_cash[j].diesel = Num(128)

(***************************************************************************)
(* Properties of rate and salary approval.                                 *)
(***************************************************************************)
\* C10: the approved (shadow) rate or salary equals the live one when the last
\* create, edit or approve request on the person was an approve, and is cleared
\* otherwise: 0 for a worker, NULL for a staff member.
C10_ShadowFollowsApproval ==
    /\ \A id \in DOMAIN workers :
          workers[id].approved_hourly_rate =
             IF people_hist.workers[id] = "approve" THEN workers[id].hourly_rate ELSE Num(0)
    /\ \A id \in DOMAIN staff :
          staff[id].approved_salary =
             IF people_hist.staff[id] = "approve" THEN staff[id].salary ELSE NULL

\* A worker created with rate 5 and not yet approved, a worker whose edited
\* rate was approved, and a staff member whose salary was approved and one whose
\* salary was edited since.
C10_Witness ==
    /\ \E i, j \in DOMAIN workers :
          /\ people_hist.workers[i] = "create" /\ workers[i].hourly_rate = Num(5)
          /\ people_hist.workers[j] = "approve" /\ workers[j].approved_hourly_rate = Num(5)
    /\ \E i \in DOMAIN staff :
          people_hist.staff[i] = "approve" /\ staff[i].approved_salary = Num(5)

\* C11: for every worker and every rate value, 0 included, the approved rate
\* equals the live rate exactly when the last create, edit or approve request on
\* the worker was an approve.
C11_RatesAgreeIffApproved ==
    \A id \in DOMAIN workers :
       (workers[id].approved_hourly_rate = workers[id].hourly_rate)
          <=> (people_hist.workers[id] = "approve")

\* With a nonzero rate the two fields do tell whether the rate is approved.
C11_NonzeroRates ==
    \A id \in DOMAIN workers :
       workers[id].hourly_rate # Num(0) =>
          ((workers[id].approved_hourly_rate = workers[id].hourly_rate)
              <=> (people_hist.workers[id] = "approve"))

(***************************************************************************)
(* Properties of the roster.                                               *)
(***************************************************************************)
\* C12: every worker has a leave_date exactly when it is not active; a worker
\* is created active without a leave_date, and a served mark_left sets active = 0
\* and the leave_date together.
C12_LeaveDateIffInactive ==
    [][/\ \A id \in DOMAIN workers' :
             (workers'[id].leave_date # NULL) <=> (workers'[id].active = 0)
       /\ \A id \in DOMAIN workers' \ DOMAIN workers :
             workers'[id].active = 1 /\ workers'[id].leave_date = NULL
       /\ \A c \in Sessions, id \in DOMAIN workers :
             (mark_left(c, id, Today) /\ c \in DOMAIN users /\ users[c] \in {"md", "admin"})
                => (workers'[id].active = 0 /\ workers'[id].leave_date = Today)]_vars

\* A worker who has left, whose rate was edited afterwards, next to an active
\* worker whose rate is approved.
C12_Witness ==
    \E i, j \in DOMAIN workers :
       /\ workers[i].active = 0 /\ workers[i].leave_date = Today
       /\ people_hist.workers[i] = "update"
       /\ workers[j].active = 1 /\ people_hist.workers[j] = "approve"

(***************************************************************************)
(* Properties of concurrent approval requests.                             *)
(***************************************************************************)
\* The stored entries of a table are as the last committed statement on each
\* left them: absent after a delete, approved with that request's approver and
\* clock reading after an approve, unapproved with both null after a reset or
\* when no statement has matched the entry yet.
LastWriteWins(tbl, last, unapproved) ==
    /\ \A id \in DOMAIN last : last[id].op = "delete" <=> id \notin DOMAIN tbl
    /\ \A id \in DOMAIN tbl :
          LET row == tbl[id]
          IN  IF id \in DOMAIN last /\ last[id].op = "approve"
              THEN /\ row.status = "approved"
                   /\ row.approved_by = Num(last[id].caller)
                   /\ row.approved_at = last[id].now
              ELSE /\ row.status = unapproved
                   /\ row.approved_by = NULL
                   /\ row.approved_at = NULL

\* C13: under every interleaving of concurrent approve, reset and delete
\* requests on an entry, the stored entry is never half approved (approved with
\* approver or timestamp null, or unapproved with either set), and it is what
\* the request that committed last wrote, approver and timestamp both from that
\* request.
C13_AtomicLastWriteWins ==
    /\ \A id \in DOMAIN daily_cash :
          /\ daily_cash[id].status = "approved" =>
                (daily_cash[id].approved_by # NULL /\ daily_cash[id].approved_at # NULL)
          /\ daily_cash[id].status = "submitted" =>
                (daily_cash[id].approved_by = NULL /\ daily_cash[id].approved_at = NULL)
    /\ \A id \in DOMAIN timesheets :
          /\ timesheets[id].status = "approved" =>
                (timesheets[id].approved_by # NULL /\ timesheets[id].approved_at # NULL)
          /\ timesheets[id].status = "pending" =>
                (timesheets[id].approved_by = NULL /\ timesheets[id].approved_at = NULL)
    /\ LastWriteWins(daily_cash, requests.last["daily_cash"], "submitted")
    /\ LastWriteWins(timesheets, requests.last["timesheets"], "pending")

\* Two approvers approve an already approved cash entry at once: one statement
\* holds the write lock, the other request waits, and the two carry different
\* approvers; a timesheet entry has been approved and reset.
C13_Witness ==
    /\ \E q1, q2 \in requests.inflight :
          /\ q1.op = "approve" /\ q2.op = "approve"
          /\ q1.tbl = "daily_cash" /\ q2.tbl = "daily_cash" /\ q1.id = q2.id
          /\ q1.caller # q2.caller
          /\ q1.pc = "written" /\ q2.pc = "ready"
          /\ q1.id \in DOMAIN daily_cash
          /\ daily_cash[q1.id].status = "approved"
          /\ daily_cash[q1.id].approved_at # q1.now

(***************************************************************************)
(* Properties of numeric coercion.                                         *)
(***************************************************************************)
\* Submitted values that are missing or do not parse as a number.
NotNumbers == {Missing, Blank, Junk}

MayEditRoster(c) == c \in DOMAIN users /\ users[c] \in {"manager", "md", "admin"}

MayEditRates(c) == c \in DOMAIN users /\ users[c] \in {"md", "admin"}

\* C14: a numeric field submitted missing or unparsable is persisted as exactly
\* 0, at every entry point that stores numeric fields: the 17 amounts of cash
\* capture, timesheet hours (0 hours, so no row), the rate and salary of roster
\* capture, and rate and salary edits.
C14_CoercionToZero ==
    [][\A tok \in NotNumbers :
          /\ \A x \in NumFields :
                DailyRow(CashForm([PowersForm EXCEPT ![x] = tok], Missing, Missing, Missing),
                         1, Today, "T1")[x] = Num(0)
          /\ _f(tok) = Num(0) /\ ~SavesHours(_f(tok))
          /\ \A c \in Sessions :
                /\ (MayEditRoster(c) /\ people(c, WorkerForm("Amina", tok), Today))
                      => workers'[seq.workers].hourly_rate = Num(0)
                /\ (MayEditRoster(c) /\ people(c, StaffForm("Salma", tok), Today))
                      => staff'[seq.staff].salary = Num(0)
                /\ \A id \in DOMAIN workers :
                      (MayEditRates(c) /\ update_hourly_rate(c, id, tok))
                         => workers'[id].hourly_rate = Num(0)
                /\ \A id \in DOMAIN staff :
                      (MayEditRates(c) /\ update_salary(c, id, tok))
                         => staff'[id].salary = Num(0)]_vars

(***************************************************************************)
(* Properties of the scope of approve, reset and delete.                   *)
(***************************************************************************)
\* The database tables, without the history bookkeeping.
Store == <<users, daily_cash, workers, staff, timesheets>>

ApprovalFields == {"status", "approved_by", "approved_at"}

NonApproval(r) == [x \in DOMAIN r \ ApprovalFields |-> r[x]]

\* An UPDATE of the row id of tbl, giving tbl2: same rows, every other row and
\* the non-approval fields of row id as before.
OnlyApprovalOf(tbl, tbl2, id) ==
    /\ DOMAIN tbl2 = DOMAIN tbl
    /\ \A i \in DOMAIN tbl \ {id} : tbl2[i] = tbl[i]
    /\ id \in DOMAIN tbl => NonApproval(tbl2[id]) = NonApproval(tbl[id])

\* A DELETE of the row id of tbl, giving tbl2: no row appears and every other
\* row is as before.
OnlyRemovalOf(tbl, tbl2, id) ==
    /\ DOMAIN tbl \ {id} \subseteq DOMAIN tbl2
    /\ DOMAIN tbl2 \subseteq DOMAIN tbl
    /\ \A i \in DOMAIN tbl \ {id} : tbl2[i] = tbl[i]

\* C15: approve, reset and delete (and reject) on an entry id change only the
\* row with that id: every other cash and timesheet row and the non-approval
\* fields of the targeted row are unchanged; on an id with no row the whole
\* store is unchanged, so an absent (deleted) row is not brought back.
C15_OnlyTargetRowChanges ==
    [][/\ \A id \in DailyIds :
          /\ \/ /\ OnlyApprovalOf(daily_cash, daily_cash', id)
                /\ timesheets' = timesheets
                /\ id \notin DOMAIN daily_cash => Store' = Store
             \/ \A c \in Sessions :
                   ~(approve_daily(c, id, "T1") \/ unapprove_daily(c, id))
          /\ \/ /\ OnlyRemovalOf(daily_cash, daily_cash', id)
                /\ timesheets' = timesheets
                /\ id \notin DOMAIN daily_cash => Store' = Store
             \/ \A c \in Sessions :
                   ~(delete_daily(c, id) \/ reject_daily(c, id))
       /\ \A id \in TsIds :
          /\ \/ /\ OnlyApprovalOf(timesheets, timesheets', id)
                /\ daily_cash' = daily_cash
                /\ id \notin DOMAIN timesheets => Store' = Store
             \/ \A c \in Sessions :
                   ~(approve_timesheet(c, id, "T1") \/ reset_timesheet(c, id))
          /\ \/ /\ OnlyRemovalOf(timesheets, timesheets', id)
                /\ daily_cash' = daily_cash
                /\ id \notin DOMAIN timesheets => Store' = Store
             \/ \A c \in Sessions :
                   ~(delete_timesheet(c, id) \/ reject_timesheet(c, id))]_vars

\* In both tables entry 1 was deleted while entry 2 is kept and approved.
C15_Witness ==
    /\ seq.daily > 2 /\ DOMAIN daily_cash = {2} /\ daily_cash[2].status = "approved"
    /\ seq.ts > 2 /\ DOMAIN timesheets = {2} /\ timesheets[2].status = "approved"

(***************************************************************************)
(* Properties of the totals of the monthly grid.                           *)
(***************************************************************************)
\* C16: in the monthly grid the total of worker w equals the sum of the hours
\* of all timesheet entries of w dated in that month, wherever in the month
\* the entries lie, the last days of the month included.
C16_TotalsCoverMonth ==
    LET gt == grid_totals(GridMonth)
    IN  \A w \in DOMAIN gt : gt[w] = SumHours(EntriesOf(w, InMonth(GridMonth)))

\* What the totals do cover: the entries of the month whose following Saturday
\* (the day itself, if a Saturday) is still a day of the month.
C16_TotalsCoverWeeksEndingInMonth ==
    LET gt == grid_totals(GridMonth)
    IN  \A w \in DOMAIN gt :
           gt[w] = SumHours({i \in EntriesOf(w, InMonth(GridMonth)) :
                                week_start(timesheets[i].date).mo = GridMonth})

====
